---------------------------- MODULE Spec2Model ----------------------------
(***************************************************************************)
(* Model of openssl/src/x509/verify.rs: the X509VerifyParam binding over   *)
(* the native X509_VERIFY_PARAM object.                                    *)
(*                                                                         *)
(* A flag value (the `bits` of X509CheckFlags / X509VerifyFlags) is the    *)
(* set of its bit positions: 0x80 is {7}, 0x30000 is {16, 17}.  Bitwise or *)
(* is \cup, and-not is \, and is \cap.                                     *)
(* A string or byte buffer is a sequence of small naturals; 0 is NUL.      *)
(***************************************************************************)
EXTENDS Integers, Sequences, FiniteSets, TLC

\* ------------------------------------------------------------ bounds
MaxParams == 2
MaxOps == 2
MaxHostLen == 2

Handles == 1..MaxParams
Addrs == 1..MaxParams

\* ------------------------------------------------- native flag values
\* openssl-sys declarations (values of the library's x509_vfy.h / x509v3.h)
X509_CHECK_FLAG_ALWAYS_CHECK_SUBJECT == {0}
X509_CHECK_FLAG_NO_WILDCARDS == {1}

X509_V_FLAG_USE_CHECK_TIME == {1}
X509_V_FLAG_POLICY_CHECK == {7}
X509_V_FLAG_EXPLICIT_POLICY == {8}
X509_V_FLAG_INHIBIT_ANY == {9}
X509_V_FLAG_INHIBIT_MAP == {10}
X509_V_FLAG_SUITEB_128_LOS_ONLY == {16}
X509_V_FLAG_SUITEB_192_LOS == {17}
X509_V_FLAG_SUITEB_128_LOS == {16, 17}
X509_V_FLAG_POLICY_MASK ==
    X509_V_FLAG_POLICY_CHECK \cup X509_V_FLAG_EXPLICIT_POLICY
        \cup X509_V_FLAG_INHIBIT_ANY \cup X509_V_FLAG_INHIBIT_MAP

\* -------------------------------------- bitflags! X509CheckFlags (12-27)
ALWAYS_CHECK_SUBJECT == X509_CHECK_FLAG_ALWAYS_CHECK_SUBJECT
NO_WILDCARDS == X509_CHECK_FLAG_NO_WILDCARDS
FLAG_NO_WILDCARDS == X509_CHECK_FLAG_NO_WILDCARDS

\* ------------------------------------- bitflags! X509VerifyFlags (29-62)
USE_CHECK_TIME == X509_V_FLAG_USE_CHECK_TIME
POLICY_CHECK == X509_V_FLAG_POLICY_CHECK
EXPLICIT_POLICY == X509_V_FLAG_EXPLICIT_POLICY
SUITEB_128_LOS_ONLY == X509_V_FLAG_SUITEB_128_LOS_ONLY
SUITEB_192_LOS == X509_V_FLAG_SUITEB_128_LOS
SUITEB_128_LOS == X509_V_FLAG_SUITEB_192_LOS

\* ------------------------------------------------------------- inputs
UnionAll(S) == UNION S

\* every X509CheckFlags value built from the named constants
CheckFlagInputs ==
    { UnionAll(S) : S \in SUBSET {ALWAYS_CHECK_SUBJECT, NO_WILDCARDS, FLAG_NO_WILDCARDS} }

\* every X509VerifyFlags value built from the named constants below
VerifyFlagInputs ==
    { UnionAll(S) : S \in SUBSET {POLICY_CHECK, EXPLICIT_POLICY, SUITEB_128_LOS_ONLY,
                                  SUITEB_192_LOS, SUITEB_128_LOS} }

\* the flag values the full specification draws from
FewVerifyFlags == {EXPLICIT_POLICY, SUITEB_128_LOS}
FewCheckFlags == {{}, NO_WILDCARDS}

HostChars == {0, 1}

RECURSIVE Strs(_)
Strs(n) ==
    IF n = 0 THEN {<<>>}
    ELSE LET shorter == Strs(n - 1)
         IN shorter \cup { Append(s, c) : s \in { t \in shorter : Len(t) = n - 1 }, c \in HostChars }

\* &str arguments of set_host: every string of up to MaxHostLen characters,
\* NUL included
HostInputs == Strs(MaxHostLen)
FewHosts == {<<>>, <<1>>}

V4(octets) == [family |-> "V4", octets |-> octets]
V6(octets) == [family |-> "V6", octets |-> octets]

\* std::net::IpAddr arguments of set_ip
IpInputs ==
    { V4(<<1, 2, 3, 4>>),
      V6(<<1, 2, 3, 4, 5, 6, 7, 8, 9, 10, 11, 12, 13, 14, 15, 16>>),
      V6(<<1, 2, 3, 4, 0, 0, 0, 0, 0, 0, 0, 0, 0, 0, 0, 0>>) }
FewIps ==
    { V4(<<1, 2, 3, 4>>),
      V6(<<1, 2, 3, 4, 0, 0, 0, 0, 0, 0, 0, 0, 0, 0, 0, 0>>) }

TimeInputs == {1}
DepthInputs == {-2, 0}
AuthLevelInputs == {2}
\* X509PurposeId values: 0 names no purpose of the library, 1 is SSL_CLIENT
PurposeInputs == {0, 1}


\* ------------------------------------------- the native parameter object
\* X509_VERIFY_PARAM as X509_VERIFY_PARAM_new leaves it
DefaultParam ==
    [flags |-> {}, hostflags |-> {}, hosts |-> <<>>, ip |-> <<>>,
     check_time |-> 0, depth |-> -1, auth_level |-> -1, purpose |-> 0]

NULL == 0

HasNul(buf, n) == \E i \in 1..n : i <= Len(buf) /\ buf[i] = 0

\* C strlen: the bytes before the first NUL.  Every buffer the binding passes
\* with length 0 holds a NUL.
strlen(buf) ==
    IF HasNul(buf, Len(buf))
    THEN (CHOOSE i \in 1..Len(buf) : buf[i] = 0 /\ ~HasNul(buf, i - 1)) - 1
    ELSE Len(buf)

\* param->hostflags = flags
X509_VERIFY_PARAM_set_hostflags(p, bits) == [p EXCEPT !.hostflags = bits]

\* param->flags |= flags, and policy checking is switched on with any policy flag
X509_VERIFY_PARAM_set_flags(p, bits) ==
    [param |-> [p EXCEPT !.flags =
                    (@ \cup bits) \cup
                    (IF bits \cap X509_V_FLAG_POLICY_MASK # {}
                     THEN X509_V_FLAG_POLICY_CHECK ELSE {})],
     ret |-> 1]

\* param->flags &= ~flags
X509_VERIFY_PARAM_clear_flags(p, bits) ==
    [param |-> [p EXCEPT !.flags = @ \ bits], ret |-> 1]

X509_VERIFY_PARAM_get_flags(p) == p.flags

\* A length of 0 means "run strlen".  A name with a NUL before its last byte
\* is refused; a final NUL is dropped.  The old names are released before the
\* new one is copied, so a failed copy (oom) leaves no name.
X509_VERIFY_PARAM_set1_host(p, name, namelen, oom) ==
    LET n0 == IF namelen = 0 THEN strlen(name) ELSE namelen
        embedded == namelen # 0 /\ HasNul(name, IF namelen > 1 THEN namelen - 1 ELSE namelen)
        n1 == IF n0 > 0 /\ name[n0] = 0 THEN n0 - 1 ELSE n0
    IN  IF embedded THEN [param |-> p, ret |-> 0]
        ELSE IF n1 = 0 THEN [param |-> [p EXCEPT !.hosts = <<>>], ret |-> 1]
        ELSE IF oom THEN [param |-> [p EXCEPT !.hosts = <<>>], ret |-> 0]
        ELSE [param |-> [p EXCEPT !.hosts = <<SubSeq(name, 1, n1)>>], ret |-> 1]

\* Only 0, 4 or 16 bytes are taken; the copy is made before the old address
\* is released, so a failed copy (oom) changes nothing.
X509_VERIFY_PARAM_set1_ip(p, buf, iplen, oom) ==
    LET n == IF iplen = 0 THEN strlen(buf) ELSE iplen
    IN  IF iplen \notin {0, 4, 16} THEN [param |-> p, ret |-> 0]
        ELSE IF oom THEN [param |-> p, ret |-> 0]
        ELSE [param |-> [p EXCEPT !.ip = SubSeq(buf, 1, n)], ret |-> 1]

\* param->check_time = t; param->flags |= X509_V_FLAG_USE_CHECK_TIME
X509_VERIFY_PARAM_set_time(p, t) ==
    [p EXCEPT !.check_time = t, !.flags = @ \cup X509_V_FLAG_USE_CHECK_TIME]

X509_VERIFY_PARAM_set_depth(p, depth) == [p EXCEPT !.depth = depth]

X509_VERIFY_PARAM_set_auth_level(p, lvl) == [p EXCEPT !.auth_level = lvl]

X509_VERIFY_PARAM_get_auth_level(p) == p.auth_level

\* X509_PURPOSE_set: an id the library does not know is refused
X509_VERIFY_PARAM_set_purpose(p, purpose) ==
    IF purpose \in 1..9
    THEN [param |-> [p EXCEPT !.purpose = purpose], ret |-> 1]
    ELSE [param |-> p, ret |-> 0]

\* native memory: one cell per address
FreshCell == [state |-> "unalloc", param |-> DefaultParam, nfree |-> 0]

\* the first address not yet handed out; NULL when the allocation fails
X509_VERIFY_PARAM_new(mem, oom) ==
    LET free == { a \in Addrs : mem[a].state = "unalloc" }
    IN  IF oom \/ free = {}
        THEN [mem |-> mem, ptr |-> NULL]
        ELSE LET a == CHOOSE x \in free : \A y \in free : x <= y
             IN  [mem |-> [mem EXCEPT ![a] = [state |-> "alloc", param |-> DefaultParam,
                                              nfree |-> 0]],
                  ptr |-> a]

\* the cell is released; what it held is gone
X509_VERIFY_PARAM_free(mem, ptr) ==
    [mem EXCEPT ![ptr] = [state |-> "freed", param |-> DefaultParam, nfree |-> @.nfree + 1]]

\* crate::cvt: a return value <= 0 is an error
cvt(r) == r > 0

\* crate::cvt_p: a null pointer is an error
cvt_p(ptr) == ptr # NULL

\* ------------------------------------------------ the binding (verify.rs)
\* new() as it would be if it handed out a parameter set that exists already
X509VerifyParam_new_shared(mem, oom) ==
    LET made == { a \in Addrs : mem[a].state = "alloc" }
        n == X509_VERIFY_PARAM_new(mem, oom)
    IN  IF made # {}
        THEN [mem |-> mem, ok |-> TRUE, ptr |-> CHOOSE a \in made : TRUE]
        ELSE [mem |-> n.mem, ok |-> cvt_p(n.ptr), ptr |-> n.ptr]

\* X509VerifyParam::new: ffi::init() is the New action's `initialized`
X509VerifyParam_new(mem, oom) ==
    LET n == X509_VERIFY_PARAM_new(mem, oom)
    IN  [mem |-> n.mem, ok |-> cvt_p(n.ptr), ptr |-> n.ptr]

\* drop as it would be without the native free
X509VerifyParam_drop_leaking(mem, ptr) == mem

\* fn drop = ffi::X509_VERIFY_PARAM_free
X509VerifyParam_drop(mem, ptr) == X509_VERIFY_PARAM_free(mem, ptr)

\* set_hostflags as it would be if it added to the flags held
set_hostflags_adding(p, hostflags) ==
    [param |-> X509_VERIFY_PARAM_set_hostflags(p, p.hostflags \cup hostflags),
     ok |-> TRUE,
     call |-> [fn |-> "X509_VERIFY_PARAM_set_hostflags", bits |-> p.hostflags \cup hostflags]]

set_hostflags(p, hostflags) ==
    [param |-> X509_VERIFY_PARAM_set_hostflags(p, hostflags),
     ok |-> TRUE,
     call |-> [fn |-> "X509_VERIFY_PARAM_set_hostflags", bits |-> hostflags]]

\* set_flags as it would be if it replaced the flags held
set_flags_replacing(p, flags_) ==
    LET c == X509_VERIFY_PARAM_clear_flags(p, X509_VERIFY_PARAM_get_flags(p))
        r == X509_VERIFY_PARAM_set_flags(c.param, flags_)
    IN  [param |-> r.param, ok |-> cvt(r.ret),
         call |-> [fn |-> "X509_VERIFY_PARAM_set_flags", bits |-> flags_]]

set_flags(p, flags_) ==
    LET r == X509_VERIFY_PARAM_set_flags(p, flags_)
    IN  [param |-> r.param, ok |-> cvt(r.ret),
         call |-> [fn |-> "X509_VERIFY_PARAM_set_flags", bits |-> flags_]]

\* clear_flags as it would be if it called the native set_flags
clear_flags_setting(p, flags_) ==
    LET r == X509_VERIFY_PARAM_set_flags(p, flags_)
    IN  [param |-> r.param, ok |-> cvt(r.ret),
         call |-> [fn |-> "X509_VERIFY_PARAM_set_flags", bits |-> flags_]]

clear_flags(p, flags_) ==
    LET r == X509_VERIFY_PARAM_clear_flags(p, flags_)
    IN  [param |-> r.param, ok |-> cvt(r.ret),
         call |-> [fn |-> "X509_VERIFY_PARAM_clear_flags", bits |-> flags_]]

\* X509VerifyFlags { bits }: the native bits as they are, nothing truncated
flags(p) == X509_VERIFY_PARAM_get_flags(p)

\* set_host as it would be if it made no native call for the empty string
set_host_skipping_empty(p, host, oom) ==
    LET r == X509_VERIFY_PARAM_set1_host(p, host, Len(host), oom)
    IN  IF host = <<>>
        THEN [param |-> p, ok |-> TRUE, call |-> [fn |-> "none"]]
        ELSE [param |-> r.param, ok |-> cvt(r.ret),
              call |-> [fn |-> "X509_VERIFY_PARAM_set1_host", buf |-> host, len |-> Len(host)]]

set_host(p, host, oom) ==
    LET raw_host == IF host = <<>> THEN <<0>> ELSE host
        r == X509_VERIFY_PARAM_set1_host(p, raw_host, Len(host), oom)
    IN  [param |-> r.param, ok |-> cvt(r.ret),
         call |-> [fn |-> "X509_VERIFY_PARAM_set1_host", buf |-> raw_host, len |-> Len(host)]]

\* set_ip as it would be if it always passed the whole 16-byte buffer
set_ip_padded(p, ip, oom) ==
    LET buf == IF ip.family = "V4"
               THEN [i \in 1..16 |-> IF i <= 4 THEN ip.octets[i] ELSE 0]
               ELSE [i \in 1..16 |-> ip.octets[i]]
        r == X509_VERIFY_PARAM_set1_ip(p, buf, 16, oom)
    IN  [param |-> r.param, ok |-> cvt(r.ret),
         call |-> [fn |-> "X509_VERIFY_PARAM_set1_ip", buf |-> buf, len |-> 16]]

\* set_ip as it would be if it dropped the expected host first
set_ip_clearing_host(p, ip, oom) ==
    LET buf == IF ip.family = "V4"
               THEN [i \in 1..16 |-> IF i <= 4 THEN ip.octets[i] ELSE 0]
               ELSE [i \in 1..16 |-> ip.octets[i]]
        len == IF ip.family = "V4" THEN 4 ELSE 16
        h == X509_VERIFY_PARAM_set1_host(p, <<0>>, 0, oom)
        r == X509_VERIFY_PARAM_set1_ip(h.param, buf, len, oom)
    IN  [param |-> r.param, ok |-> cvt(r.ret),
         call |-> [fn |-> "X509_VERIFY_PARAM_set1_ip", buf |-> buf, len |-> len]]

set_ip(p, ip, oom) ==
    LET zeros == [i \in 1..16 |-> 0]
        buf == IF ip.family = "V4"
               THEN [i \in 1..16 |-> IF i <= 4 THEN ip.octets[i] ELSE zeros[i]]
               ELSE [i \in 1..16 |-> ip.octets[i]]
        len == IF ip.family = "V4" THEN 4 ELSE 16
        r == X509_VERIFY_PARAM_set1_ip(p, buf, len, oom)
    IN  [param |-> r.param, ok |-> cvt(r.ret),
         call |-> [fn |-> "X509_VERIFY_PARAM_set1_ip", buf |-> buf, len |-> len]]

set_time(p, time) ==
    [param |-> X509_VERIFY_PARAM_set_time(p, time), ok |-> TRUE,
     call |-> [fn |-> "X509_VERIFY_PARAM_set_time", t |-> time]]

set_depth(p, depth) ==
    [param |-> X509_VERIFY_PARAM_set_depth(p, depth), ok |-> TRUE,
     call |-> [fn |-> "X509_VERIFY_PARAM_set_depth", depth |-> depth]]

set_auth_level(p, lvl) ==
    [param |-> X509_VERIFY_PARAM_set_auth_level(p, lvl), ok |-> TRUE,
     call |-> [fn |-> "X509_VERIFY_PARAM_set_auth_level", auth_level |-> lvl]]

auth_level(p) == X509_VERIFY_PARAM_get_auth_level(p)

\* set_purpose as it would be without cvt
set_purpose_unchecked(p, purpose) ==
    LET r == X509_VERIFY_PARAM_set_purpose(p, purpose)
    IN  [param |-> r.param, ok |-> TRUE,
         call |-> [fn |-> "X509_VERIFY_PARAM_set_purpose", purpose |-> purpose]]

set_purpose(p, purpose) ==
    LET r == X509_VERIFY_PARAM_set_purpose(p, purpose)
    IN  [param |-> r.param, ok |-> cvt(r.ret),
         call |-> [fn |-> "X509_VERIFY_PARAM_set_purpose", purpose |-> purpose]]

\* ------------------------------------------------------------- state
VARIABLES
    mem,          \* native memory: address -> cell
    owner,        \* each X509VerifyParam value of the caller: status and pointer
    initialized,  \* ffi::init() has run
    hist,         \* the last calls on parameter sets, oldest first
    nops          \* calls made so far (bounded in Spec only)

vars == <<mem, owner, initialized, hist, nops>>

Live(o) == owner[o].status = "live"
Param(o) == mem[owner[o].ptr].param

\* hist keeps the last call, and before it the call that preceded it when both
\* are set_flags / clear_flags calls on the same parameter set
FlagCall(rec) == rec.op \in {"set_flags", "clear_flags"}
Push(h, rec) ==
    IF h # <<>> /\ FlagCall(h[Len(h)]) /\ FlagCall(rec) /\ h[Len(h)].obj = rec.obj
    THEN <<h[Len(h)], rec>>
    ELSE <<rec>>

Init ==
    /\ mem = [a \in Addrs |-> FreshCell]
    /\ owner = [o \in Handles |-> [status |-> "none", ptr |-> NULL]]
    /\ initialized = FALSE
    /\ hist = <<>>
    /\ nops = 0

\* a call through &mut self (or &self) on the live value o
Apply(o, name, arg, r, ret) ==
    /\ mem' = [mem EXCEPT ![owner[o].ptr].param = r.param]
    /\ hist' = Push(hist, [op |-> name, obj |-> o, arg |-> arg, ok |-> r.ok, ret |-> ret,
                           pre |-> Param(o), call |-> r.call])
    /\ UNCHANGED <<owner, initialized>>

\* let o = X509VerifyParam::new(); values are made in the order of their names
New(o, oom) ==
    /\ owner[o].status = "none"
    /\ \A q \in Handles : q < o => owner[q].status # "none"
    /\ LET r == X509VerifyParam_new(mem, oom)
       IN  /\ mem' = r.mem
           /\ owner' = [owner EXCEPT ![o] =
                            IF r.ok THEN [status |-> "live", ptr |-> r.ptr]
                            ELSE [status |-> "failed", ptr |-> NULL]]
    /\ initialized' = TRUE
    /\ UNCHANGED hist

\* the owner of o goes out of scope; hist forgets the calls made on o
Drop(o) ==
    /\ Live(o)
    /\ mem' = X509VerifyParam_drop(mem, owner[o].ptr)
    /\ owner' = [owner EXCEPT ![o].status = "dropped"]
    /\ hist' = SelectSeq(hist, LAMBDA rec : rec.obj # o)
    /\ UNCHANGED initialized

SetHostflags(o, f) ==
    /\ Live(o)
    /\ Apply(o, "set_hostflags", [bits |-> f], set_hostflags(Param(o), f), [unit |-> TRUE])

SetFlags(o, f) ==
    /\ Live(o)
    /\ LET r == set_flags(Param(o), f) IN Apply(o, "set_flags", [bits |-> f], r, [ok |-> r.ok])

ClearFlags(o, f) ==
    /\ Live(o)
    /\ LET r == clear_flags(Param(o), f) IN Apply(o, "clear_flags", [bits |-> f], r, [ok |-> r.ok])

Flags(o) ==
    /\ Live(o)
    /\ Apply(o, "flags", [self |-> o],
             [param |-> Param(o), ok |-> TRUE, call |-> [fn |-> "X509_VERIFY_PARAM_get_flags"]],
             [bits |-> flags(Param(o))])

SetHost(o, h, oom) ==
    /\ Live(o)
    /\ LET r == set_host(Param(o), h, oom) IN Apply(o, "set_host", [host |-> h], r, [ok |-> r.ok])

SetIp(o, ip, oom) ==
    /\ Live(o)
    /\ LET r == set_ip(Param(o), ip, oom) IN Apply(o, "set_ip", [ip |-> ip], r, [ok |-> r.ok])

SetTime(o, t) ==
    /\ Live(o)
    /\ Apply(o, "set_time", [time |-> t], set_time(Param(o), t), [unit |-> TRUE])

SetDepth(o, d) ==
    /\ Live(o)
    /\ Apply(o, "set_depth", [depth |-> d], set_depth(Param(o), d), [unit |-> TRUE])

SetAuthLevel(o, l) ==
    /\ Live(o)
    /\ Apply(o, "set_auth_level", [lvl |-> l], set_auth_level(Param(o), l), [unit |-> TRUE])

AuthLevel(o) ==
    /\ Live(o)
    /\ Apply(o, "auth_level", [self |-> o],
             [param |-> Param(o), ok |-> TRUE,
              call |-> [fn |-> "X509_VERIFY_PARAM_get_auth_level"]],
             [lvl |-> auth_level(Param(o))])

SetPurpose(o, id) ==
    /\ Live(o)
    /\ LET r == set_purpose(Param(o), id) IN Apply(o, "set_purpose", [purpose |-> id], r, [ok |-> r.ok])

\* ------------------------------------------------------ specifications
Counted == nops < MaxOps /\ nops' = nops + 1
Uncounted == UNCHANGED nops

\* every operation, on several parameter sets at once, MaxOps calls deep
Next ==
    \/ \E o \in Handles, oom \in BOOLEAN : New(o, oom) /\ Uncounted
    \/ \E o \in Handles : Drop(o) /\ Uncounted
    \/ \E o \in Handles, f \in FewCheckFlags : SetHostflags(o, f) /\ Counted
    \/ \E o \in Handles, f \in FewVerifyFlags : SetFlags(o, f) /\ Counted
    \/ \E o \in Handles, f \in FewVerifyFlags : ClearFlags(o, f) /\ Counted
    \/ \E o \in Handles : Flags(o) /\ Counted
    \/ \E o \in Handles, h \in FewHosts, oom \in BOOLEAN : SetHost(o, h, oom) /\ Counted
    \/ \E o \in Handles, ip \in FewIps, oom \in BOOLEAN : SetIp(o, ip, oom) /\ Counted
    \/ \E o \in Handles, t \in TimeInputs : SetTime(o, t) /\ Counted
    \/ \E o \in Handles, d \in DepthInputs : SetDepth(o, d) /\ Counted
    \/ \E o \in Handles, l \in AuthLevelInputs : SetAuthLevel(o, l) /\ Counted
    \/ \E o \in Handles : AuthLevel(o) /\ Counted
    \/ \E o \in Handles, id \in PurposeInputs : SetPurpose(o, id) /\ Counted

Spec == Init /\ [][Next]_vars

\* one parameter set at a time
Solo == \A q \in Handles : ~Live(q)

\* the verify-flag operations, over every flag value, to any depth
NextFlags ==
    \/ \E o \in Handles, oom \in BOOLEAN : Solo /\ New(o, oom) /\ Uncounted
    \/ \E o \in Handles : Drop(o) /\ Uncounted
    \/ \E o \in Handles, f \in VerifyFlagInputs : SetFlags(o, f) /\ Uncounted
    \/ \E o \in Handles, f \in VerifyFlagInputs : ClearFlags(o, f) /\ Uncounted
    \/ \E o \in Handles : Flags(o) /\ Uncounted

SpecFlags == Init /\ [][NextFlags]_vars

\* the host-flag, host and address operations, over every input, to any depth
NextHost ==
    \/ \E o \in Handles, oom \in BOOLEAN : Solo /\ New(o, oom) /\ Uncounted
    \/ \E o \in Handles : Drop(o) /\ Uncounted
    \/ \E o \in Handles, f \in CheckFlagInputs : SetHostflags(o, f) /\ Uncounted
    \/ \E o \in Handles, h \in HostInputs, oom \in BOOLEAN : SetHost(o, h, oom) /\ Uncounted
    \/ \E o \in Handles, ip \in IpInputs, oom \in BOOLEAN : SetIp(o, ip, oom) /\ Uncounted

SpecHost == Init /\ [][NextHost]_vars

\* ------------------------------------------------------------- claims
HasLast == hist # <<>> /\ Live(hist[Len(hist)].obj)
Last == hist[Len(hist)]
Now == Param(Last.obj)

\* set_flags(A) directly followed by clear_flags(B) on the same parameter set,
\* both Ok
SetThenClear ==
    /\ Len(hist) = 2 /\ Live(hist[2].obj)
    /\ hist[1].op = "set_flags" /\ hist[1].ok
    /\ hist[2].op = "clear_flags" /\ hist[2].ok

\* C1: after set_flags(A) and then clear_flags(B) succeed with A and B disjoint,
\* flags() holds every bit of A and every bit of the flags V held before
\* set_flags that is not in B.
C1_DisjointClearKeepsFlags ==
    (SetThenClear /\ hist[1].arg.bits \cap hist[2].arg.bits = {})
        => /\ hist[1].arg.bits \subseteq flags(Now)
           /\ (hist[1].pre.flags \ hist[2].arg.bits) \subseteq flags(Now)

C1_Witness ==
    /\ SetThenClear
    /\ hist[1].arg.bits \cap hist[2].arg.bits = {}
    /\ hist[1].arg.bits # {} /\ hist[2].arg.bits # {}
    /\ hist[1].pre.flags \cap hist[2].arg.bits # {}
    /\ hist[1].pre.flags \ (hist[1].arg.bits \cup hist[2].arg.bits) # {}

\* C2: set_flags(F), then clear_flags(F), then flags() returns no bit of F,
\* also when bits of F were set before set_flags(F).
C2_SetClearRoundTrip ==
    (SetThenClear /\ hist[1].arg.bits = hist[2].arg.bits)
        => flags(Now) \cap hist[1].arg.bits = {}

C2_Witness ==
    /\ SetThenClear
    /\ hist[1].arg.bits = hist[2].arg.bits
    /\ hist[1].pre.flags \cap hist[1].arg.bits # {}
    /\ hist[1].arg.bits \ hist[1].pre.flags # {}
    /\ flags(Now) # {}

\* C3: set_host("") hands the native call the one-byte buffer "\0" with length
\* 0, returns Ok and leaves no expected hostname, whatever name was set before.
C3_EmptyHostClears ==
    (HasLast /\ Last.op = "set_host" /\ Last.arg.host = <<>>)
        => /\ Last.ok
           /\ Last.call = [fn |-> "X509_VERIFY_PARAM_set1_host", buf |-> <<0>>, len |-> 0]
           /\ Now.hosts = <<>>

C3_Witness ==
    /\ HasLast /\ Last.op = "set_host" /\ Last.arg.host = <<>>
    /\ Last.pre.hosts # <<>>
    /\ Now.hosts = <<>>

FamilyLen(ip) == IF ip.family = "V4" THEN 4 ELSE 16

\* C4: set_ip hands the native call exactly the octets of the address with
\* length 4 (v4) or 16 (v6), and when it returns Ok the expected IP is exactly
\* those octets, whatever address was set before.
C4_IpBytesExact ==
    (HasLast /\ Last.op = "set_ip")
        => /\ Last.call.len = FamilyLen(Last.arg.ip)
           /\ SubSeq(Last.call.buf, 1, Last.call.len) = Last.arg.ip.octets
           /\ Last.ok => /\ Now.ip = Last.arg.ip.octets
                         /\ Len(Now.ip) = FamilyLen(Last.arg.ip)

C4_Witness ==
    /\ HasLast /\ Last.op = "set_ip" /\ Last.ok
    /\ Last.arg.ip.family = "V4"
    /\ Len(Last.pre.ip) = 16
    /\ Len(Now.ip) = 4

Fallible == {"set_flags", "clear_flags", "set_host", "set_ip", "set_purpose"}

\* the name set_host stores: the string, less one final NUL
HostName(h) == IF h # <<>> /\ h[Len(h)] = 0 THEN SubSeq(h, 1, Len(h) - 1) ELSE h

\* the update of call rec is applied in full, and nothing else is changed
AppliedInFull(rec, p) ==
    CASE rec.op = "set_flags" ->
            /\ [p EXCEPT !.flags = {}] = [rec.pre EXCEPT !.flags = {}]
            /\ (rec.pre.flags \cup rec.arg.bits) \subseteq p.flags
      [] rec.op = "clear_flags" -> p = [rec.pre EXCEPT !.flags = @ \ rec.arg.bits]
      [] rec.op = "set_host" ->
            p = [rec.pre EXCEPT !.hosts = IF HostName(rec.arg.host) = <<>> THEN <<>>
                                          ELSE <<HostName(rec.arg.host)>>]
      [] rec.op = "set_ip" -> p = [rec.pre EXCEPT !.ip = rec.arg.ip.octets]
      [] rec.op = "set_purpose" -> p = [rec.pre EXCEPT !.purpose = rec.arg.purpose]

\* C5 as stated: a failing set_flags, clear_flags, set_host, set_ip or
\* set_purpose leaves every field as it was before the call, and one that
\* returns Ok has applied its update in full.
C5_NoPartialEffect ==
    (HasLast /\ Last.op \in Fallible)
        => IF Last.ok THEN AppliedInFull(Last, Now) ELSE Now = Last.pre

\* C5 amended: a failing set_flags, clear_flags, set_ip or set_purpose leaves
\* every field as it was; a failing set_host leaves every field but the
\* expected host as it was, and the expected host either as it was or cleared;
\* a call that returns Ok has applied its update in full.
C5_NoPartialEffectButHost ==
    (HasLast /\ Last.op \in Fallible)
        => IF Last.ok THEN AppliedInFull(Last, Now)
           ELSE IF Last.op = "set_host"
                THEN Now = Last.pre \/ Now = [Last.pre EXCEPT !.hosts = <<>>]
                ELSE Now = Last.pre

C5_Witness ==
    /\ HasLast /\ Last.op = "set_host" /\ ~Last.ok
    /\ Last.pre.hosts # <<>>
    /\ Now = [Last.pre EXCEPT !.hosts = <<>>]

\* C6: set_host (set_host("") too) leaves the expected IP as it was and set_ip
\* leaves the expected host as it was, whether the call succeeds or fails.
C6_HostAndIpIndependent ==
    HasLast =>
        /\ Last.op = "set_host" => Now.ip = Last.pre.ip
        /\ Last.op = "set_ip" => Now.hosts = Last.pre.hosts

C6_Witness ==
    /\ HasLast /\ Last.op = "set_ip" /\ Last.ok
    /\ Last.pre.hosts # <<>>
    /\ Now.hosts # <<>> /\ Now.ip # <<>>

Owners(a) == { o \in Handles : owner[o].ptr = a }

\* every created object has one owner; the native free has run once when the
\* owner is gone and not before, and never for a failed creation
FreedOncePerObject ==
    /\ \A o \in Handles :
        /\ owner[o].status \in {"none", "failed"} => owner[o].ptr = NULL
        /\ owner[o].status = "live" =>
              mem[owner[o].ptr].state = "alloc" /\ mem[owner[o].ptr].nfree = 0
        /\ owner[o].status = "dropped" =>
              mem[owner[o].ptr].state = "freed" /\ mem[owner[o].ptr].nfree = 1
    /\ \A a \in Addrs :
        IF mem[a].state = "unalloc" THEN mem[a].nfree = 0 /\ Owners(a) = {}
        ELSE Cardinality(Owners(a)) = 1

\* no step reads or writes a freed object, or frees it again
FreedUntouched == \A a \in Addrs : mem[a].state = "freed" => mem'[a] = mem[a]

\* C7: the native free is called exactly once for every created parameter set
\* and never for a failed creation, and nothing is applied to a parameter set
\* after its free.
C7_FreedExactlyOnce == [](FreedOncePerObject) /\ [][FreedUntouched]_vars

C7_Witness ==
    /\ \E o \in Handles : owner[o].status = "dropped" /\ mem[owner[o].ptr].nfree = 1
    /\ \E o \in Handles : owner[o].status = "failed"
    /\ nops > 0

\* C8: a call on one parameter set leaves every field of every other
\* parameter set as it was.
C8_NoSharedState ==
    [][nops' # nops =>
          \A q \in Handles :
              (Live(q) /\ hist'[Len(hist')].obj # q) => Param(q)' = Param(q)]_vars

C8_Witness ==
    \E o, q \in Handles :
        /\ o # q /\ Live(o) /\ Live(q)
        /\ HasLast /\ Last.obj = o /\ Now # Last.pre
        /\ Param(q) # DefaultParam
        /\ Param(q) # Param(o)

\* C9: the constant named SUITEB_128_LOS has the mask of the library's
\* X509_V_FLAG_SUITEB_128_LOS and the constant named SUITEB_192_LOS that of
\* X509_V_FLAG_SUITEB_192_LOS, so a set_flags of either hands the native call
\* the library's bits of that name; the three Suite-B masks differ.
C9_SuiteBMasks ==
    (HasLast /\ Last.op = "set_flags")
        => /\ Last.arg.bits = SUITEB_128_LOS => Last.call.bits = X509_V_FLAG_SUITEB_128_LOS
           /\ Last.arg.bits = SUITEB_192_LOS => Last.call.bits = X509_V_FLAG_SUITEB_192_LOS
           /\ Cardinality({SUITEB_128_LOS_ONLY, SUITEB_192_LOS, SUITEB_128_LOS}) = 3

\* C10: after set_hostflags(F) the host-match flags are exactly F, whatever
\* they were before, and the call cannot fail.
C10_HostflagsReplaced ==
    (HasLast /\ Last.op = "set_hostflags")
        => Last.ok /\ Now.hostflags = Last.arg.bits

C10_Witness ==
    /\ HasLast /\ Last.op = "set_hostflags"
    /\ Last.pre.hostflags \ Last.arg.bits # {}
    /\ Now.hostflags = Last.arg.bits
=============================================================================
